---------------------------- MODULE Spec2Model ----------------------------
(***************************************************************************)
(* A model of the enrichment-and-ranking pipeline of the course discovery  *)
(* backend: category tagging, search ranking, and the search-demand /      *)
(* notification state machine, all working on one MongoDB document store.  *)
(*                                                                         *)
(* The repository holds two layouts of the same service: the root layout   *)
(* (src/utils, src/routers, src/services, src/app.py) and the packaged     *)
(* layout (src/app/...).  Where the two differ both are modelled, and the  *)
(* variable `deployment` says which one a behaviour runs.                  *)
(*                                                                         *)
(* Numbers: a MongoDB textScore is modelled as a non-negative integer, the *)
(* sum over the query's terms of the course's per-term weight.  Real       *)
(* numbers of the ranking formula are fixed-point integers (see Rank).     *)
(***************************************************************************)
EXTENDS Integers, Sequences, FiniteSets, TLC

(***************************************************************************)
(* Bounds of the model.                                                    *)
(***************************************************************************)
NumCourses == 2
NumCats    == 2
MaxEvents  == 1

NumUsers     == 2
MaxReqs      == 2
NumSearchers == 2
NumNotifiers == 2
MaxLen       == 3
MaxReviews   == 2
MantissaBits == 4

CourseIds == 1..NumCourses
UserIds   == 1..NumUsers
None      == 0
SearchThreads == 1..NumSearchers
NotifyThreads == 1..NumNotifiers
IdleSearcher == [pc |-> "idle", user |-> None, keyword |-> ""]
IdleNotifier == [pc |-> "idle", pending |-> <<>>]

\* the name of the canonical text index, and the functions that touch indexes
TEXT_INDEX == "CourseTextIndex"
IndexJobs  == {"ensure_text_index", "rebuild_text_index"}

\* the re-tags of one category that overlap
NumTaggers == 2
TaggerIds  == 1..NumTaggers
IdleTagger == [pc |-> "idle", cat |-> 0, next |-> 1, docs |-> <<>>, max_score |-> 0,
               added |-> {}, undid |-> FALSE]

\* what runs the ingestion pipeline: the startup thread, the scheduler's
\* ingest_job, the admin endpoint, the thread of each zero-result Search
PipelineJobs == {<<"startup_thread", 0>>, <<"ingest_job", 0>>, <<"trigger_ingest", 0>>}
                    \cup {<<"search_thread", t>> : t \in SearchThreads}
\* what runs retag_all on its own: the startup hook, the course-count watcher
RetagJobs    == {<<"startup_retag", 0>>, <<"watch_changes", 0>>}
JobIds       == PipelineJobs \cup RetagJobs
CatIds    == 1..NumCats
Names     == {"n1", "n2"}
Terms     == {"k1", "k2"}
Weights   == {0, 1, 8}

(***************************************************************************)
(* Program constants.  TAG_THRESHOLD = 0.2 = TagThresholdNum/TagThresholdDen*)
(***************************************************************************)
TagThresholdNum == 1
TagThresholdDen == 5

\* ALPHA = 0.7 = AlphaNum/WeightDen, BETA = 0.2 = BetaNum/WeightDen
AlphaNum  == 7
BetaNum   == 2
WeightDen == 10

\* PSEUDOCOUNT
Pseudocount == 10

\* a float with value 0
Zero == [m |-> 0, e |-> 0]

VARIABLES
    deployment,   \* "utils": root layout, "app": packaged layout
    courses,      \* db["courses"]: CourseIds -> [present, text, categories]
    categories,   \* db["categories"]: CatIds -> [present, name, keywords]
    changes,      \* the categories change stream: ids of inserted/updated docs
    users,            \* db["users"]: UserIds -> [present, notifications]
    search_requests,  \* db["search_requests"]: documents in insertion order
    keyword_queue,    \* db["keyword_queue"]: documents in insertion order
    searchers,        \* request threads inside search_courses
    notifiers,        \* threads inside process_search_requests
    candidates,       \* the result list a ranking request works on
    results,          \* the response of the last ranking request
    reviews,          \* the reviews arrays of the course documents
    metrics,          \* num_reviews, avg_sentiment, smoothed_sentiment of each
    jobs,             \* the runs of the batch jobs and what started them
    taggers,          \* the position of each overlapping single-category re-tag
    index,            \* the text indexes of db["courses"] and who is changing them
    last          \* history: the last operation and what it acted on

tagVars    == <<categories, changes>>
demandVars == <<users, search_requests, keyword_queue>>
threadVars == <<searchers, notifiers>>
rankVars   == <<candidates, results>>

sentVars   == <<reviews, metrics>>
otherVars  == <<jobs, taggers, index>>

vars == <<deployment, courses, tagVars, demandVars, threadVars, rankVars,
          sentVars, otherVars, last>>

(***************************************************************************)
(* The Relevance Index: $text search over the courses collection.          *)
(***************************************************************************)
RECURSIVE SumOver(_, _)
SumOver(f, S) ==
    IF S = {} THEN 0
    ELSE LET x == CHOOSE y \in S : TRUE
         IN  f[x] + SumOver(f, S \ {x})

\* {"score": {"$meta": "textScore"}} of course c for the space-joined terms
TextScore(cs, c, terms) ==
    IF cs[c].present THEN SumOver(cs[c].text, terms) ELSE 0

\* the documents a {"$text": {"$search": ...}} filter selects
Matching(cs, terms) == {c \in CourseIds : TextScore(cs, c, terms) > 0}

\* .sort([("score", {"$meta": "textScore"})]): descending textScore
RECURSIVE SortByScore(_, _, _)
SortByScore(cs, S, terms) ==
    IF S = {} THEN <<>>
    ELSE LET best == CHOOSE c \in S : \A d \in S :
                        \/ TextScore(cs, c, terms) > TextScore(cs, d, terms)
                        \/ /\ TextScore(cs, c, terms) = TextScore(cs, d, terms)
                           /\ c <= d
         IN  <<best>> \o SortByScore(cs, S \ {best}, terms)

\* courses.find({"$text": ...}, {"score": ...}).sort(...) as a list of ids
QueryDocs(cs, terms) == SortByScore(cs, Matching(cs, terms), terms)

(***************************************************************************)
(* Update operators of the store on the categories arrays.                 *)
(***************************************************************************)
\* a $pull that resets the whole array of the courses carrying the name
PullCategoryResetArray(cs, name) ==
    [c \in CourseIds |->
        IF name \in cs[c].categories
        THEN [cs[c] EXCEPT !.categories = {}]
        ELSE cs[c]]

\* courses.update_many({}, {"$pull": {"categories": name}})
PullCategory(cs, name) ==
    [c \in CourseIds |-> [cs[c] EXCEPT !.categories = @ \ {name}]]

\* an $addToSet that writes nothing
AddToSetNothing(cs, ids, name) == cs

\* update_one/update_many(..., {"$addToSet": {"categories": name}}) on ids
AddToSet(cs, ids, name) ==
    [c \in CourseIds |->
        IF c \in ids /\ cs[c].present
        THEN [cs[c] EXCEPT !.categories = @ \cup {name}]
        ELSE cs[c]]

Tagged(cs, name) == {c \in CourseIds : name \in cs[c].categories}

(***************************************************************************)
(* Category Tagger.                                                        *)
(***************************************************************************)
\* d["score"] < thresh, with thresh = TAG_THRESHOLD * max_score
BelowThreshold(score, max_score) ==
    score * TagThresholdDen < TagThresholdNum * max_score

\* the loop `for d in docs: if d["score"] < thresh: break; ...addToSet`
RECURSIVE WalkPrefix(_, _, _, _)
WalkPrefix(cs, docs, terms, max_score) ==
    IF docs = <<>> THEN {}
    ELSE IF BelowThreshold(TextScore(cs, Head(docs), terms), max_score) THEN {}
    ELSE {Head(docs)} \cup WalkPrefix(cs, Tail(docs), terms, max_score)

\* root layout, the body of retag_all's loop after its `continue` guard,
\* and of watch_changes after its clear: clear, query, walk the prefix
TagByWalk(cs, name, kws) ==
    LET docs == QueryDocs(cs, kws)
    IN  IF docs = <<>> THEN cs
        ELSE AddToSet(cs,
                      WalkPrefix(cs, docs, kws, TextScore(cs, docs[1], kws)),
                      name)

\* root layout retag_all, one category
RetagCategoryWalk(cs, cat) ==
    IF cat.keywords = {} THEN cs
    ELSE TagByWalk(PullCategory(cs, cat.name), cat.name, cat.keywords)

\* max(d.get("score", 0.0) for d in docs) or 1.0
MaxScore(cs, docs, terms) ==
    LET m == CHOOSE s \in {TextScore(cs, docs[i], terms) : i \in DOMAIN docs} :
                \A i \in DOMAIN docs : TextScore(cs, docs[i], terms) <= s
    IN  IF m = 0 THEN 1 ELSE m

\* packaged layout retag_all, one category: no clear, filter over all docs
RetagCategoryFilter(cs, cat) ==
    IF cat.keywords = {} THEN cs
    ELSE LET docs == QueryDocs(cs, cat.keywords)
         IN  IF docs = <<>> THEN cs
             ELSE LET max_score == MaxScore(cs, docs, cat.keywords)
                      ids == {docs[i] : i \in
                                {j \in DOMAIN docs :
                                   ~BelowThreshold(
                                       TextScore(cs, docs[j], cat.keywords),
                                       max_score)}}
                  IN  IF ids # {} THEN AddToSet(cs, ids, cat.name) ELSE cs

\* `for cat in categories.find()`: the stored categories in natural order
RECURSIVE RetagFrom(_, _, _)
RetagFrom(cs, cats, id) ==
    IF id > NumCats THEN cs
    ELSE IF ~cats[id].present THEN RetagFrom(cs, cats, id + 1)
    ELSE RetagFrom(IF deployment = "utils"
                   THEN RetagCategoryWalk(cs, cats[id])
                   ELSE RetagCategoryFilter(cs, cats[id]),
                   cats, id + 1)

\* the single-category re-tag of the root layout's watch_changes
RetagOnChange(cs, cat) ==
    LET cleared == PullCategory(cs, cat.name)
    IN  IF cat.keywords = {} THEN cleared
        ELSE TagByWalk(cleared, cat.name, cat.keywords)

\* the courses are interchangeable: an initial store lists them by content
TextKey(course) == course.text["k1"] * 9 + course.text["k2"]

NoCategory == [present |-> FALSE, name |-> "", keywords |-> {}]

\* the change stream delivers inserts and updates to the root layout's watcher
Emit(id) == IF deployment = "utils" THEN Append(changes, id) ELSE changes
CanEmit  == deployment = "utils" => Len(changes) < MaxEvents

\* history of the last operation: its name, the category name it acted on,
\* whether it changed a course, whether it repeats the operation before it,
\* and the user and the top_k of a Search request
Did(op, name, hit) ==
    [op |-> op, name |-> name, hit |-> hit, again |-> (last.op = op),
     user |-> None, top_k |-> 0]

(***************************************************************************)
(* Operations on categories (admin routes) and the tagger's triggers.      *)
(***************************************************************************)
create_category(id, name, kws) ==
    /\ ~categories[id].present
    /\ \A j \in CatIds : j < id => categories[j].present
    /\ ~\E j \in CatIds : categories[j].present /\ categories[j].name = name
    /\ CanEmit
    /\ categories' = [categories EXCEPT
                         ![id] = [present |-> TRUE, name |-> name, keywords |-> kws]]
    /\ changes' = Emit(id)
    /\ last' = Did("create_category", "", FALSE)
    /\ UNCHANGED <<deployment, courses, demandVars, threadVars, rankVars, sentVars, otherVars>>

update_category(id, name, kws) ==
    /\ categories[id].present
    /\ CanEmit
    /\ categories' = [categories EXCEPT
                         ![id] = [present |-> TRUE, name |-> name, keywords |-> kws]]
    /\ changes' = Emit(id)
    /\ last' = Did("update_category", "", FALSE)
    /\ UNCHANGED <<deployment, courses, demandVars, threadVars, rankVars, sentVars, otherVars>>

\* find_one_and_delete without the cascade on the courses
delete_category_no_cascade(id) ==
    /\ categories[id].present
    /\ categories' = [categories EXCEPT ![id] = NoCategory]
    /\ last' = Did("delete_category", categories[id].name, FALSE)
    /\ UNCHANGED <<deployment, courses, changes, demandVars, threadVars, rankVars, sentVars, otherVars>>

delete_category(id) ==
    /\ categories[id].present
    /\ categories' = [categories EXCEPT ![id] = NoCategory]
    /\ courses' = PullCategory(courses, categories[id].name)
    /\ last' = Did("delete_category", categories[id].name,
                    Tagged(courses, categories[id].name) # {})
    /\ UNCHANGED <<deployment, changes, demandVars, threadVars, rankVars, sentVars, otherVars>>

retag_all ==
    /\ courses' = RetagFrom(courses, categories, 1)
    /\ last' = Did("retag_all", "", FALSE)
    /\ UNCHANGED <<deployment, categories, changes, demandVars, threadVars, rankVars, sentVars, otherVars>>

watch_changes ==
    /\ deployment = "utils"
    /\ changes # <<>>
    /\ changes' = Tail(changes)
    /\ LET cat == categories[Head(changes)]
       IN  IF ~cat.present
           THEN /\ courses' = courses
                /\ last' = Did("watch_skip", "", FALSE)
           ELSE /\ courses' = RetagOnChange(courses, cat)
                /\ last' = Did("watch_changes", cat.name, FALSE)
    /\ UNCHANGED <<deployment, categories, demandVars, threadVars, rankVars, sentVars, otherVars>>

\* the parts of the state a specification does not exercise
NoOp == [op |-> "init", name |-> "", hit |-> FALSE, again |-> FALSE,
         user |-> None, top_k |-> 0]

NoDemand ==
    /\ users = [u \in UserIds |-> [present |-> TRUE, notifications |-> <<>>]]
    /\ search_requests = <<>>
    /\ keyword_queue = <<>>

NoThreads ==
    /\ searchers = [t \in SearchThreads |-> IdleSearcher]
    /\ notifiers = [p \in NotifyThreads |-> IdleNotifier]

NoJobs ==
    jobs = [pc |-> [j \in JobIds |-> "idle"], booted |-> FALSE, last_count |-> 0,
            runs |-> 0]

NoTaggers == taggers = [t \in TaggerIds |-> IdleTagger]

NoIndexing == index = [names |-> {TEXT_INDEX}, pc |-> [j \in IndexJobs |-> "idle"],
                       todo |-> [j \in IndexJobs |-> {}]]

NoRanking ==
    /\ candidates = <<>>
    /\ results = <<>>

NoMetrics == [set |-> FALSE, num_reviews |-> 0, avg_sentiment |-> Zero,
              smoothed_sentiment |-> Zero]

NoSentiment ==
    /\ reviews = [c \in CourseIds |-> <<>>]
    /\ metrics = [c \in CourseIds |-> NoMetrics]

(***************************************************************************)
(* SpecTag: the category tagger under sequential category administration.  *)
(***************************************************************************)
InitTag ==
    /\ deployment \in {"utils", "app"}
    /\ courses \in [CourseIds -> [present : {TRUE}, text : [Terms -> Weights],
                                  categories : {{}}]]
    /\ \A c, d \in CourseIds : c < d => TextKey(courses[c]) >= TextKey(courses[d])
    /\ categories = [id \in CatIds |-> NoCategory]
    /\ changes = <<>>
    /\ NoDemand
    /\ NoThreads
    /\ NoJobs
    /\ NoTaggers
    /\ NoIndexing
    /\ NoRanking
    /\ NoSentiment
    /\ last = NoOp

NextTag ==
    \/ \E id \in CatIds, name \in Names, kws \in SUBSET Terms :
           create_category(id, name, kws)
    \/ \E id \in CatIds, name \in Names, kws \in SUBSET Terms :
           update_category(id, name, kws)
    \/ \E id \in CatIds : delete_category(id)
    \/ retag_all
    \/ watch_changes

SpecTag == InitTag /\ [][NextTag]_vars

(***************************************************************************)
(* Properties of the category tagger.                                      *)
(***************************************************************************)
Present(id) == categories[id].present

UniqueName(id) ==
    \A j \in CatIds : (j # id /\ Present(j)) => categories[j].name # categories[id].name

\* the courses whose relevance score for kws is >= TAG_THRESHOLD x the
\* highest returned score
ThresholdSet(kws) ==
    {c \in Matching(courses, kws) :
        \A d \in Matching(courses, kws) :
            TextScore(courses, c, kws) * TagThresholdDen
                >= TagThresholdNum * TextScore(courses, d, kws)}

\* the categories a finished tagger operation has processed
Processed(id) ==
    /\ Present(id)
    /\ UniqueName(id)
    /\ \/ last.op = "retag_all"
       \/ last.op = "watch_changes" /\ categories[id].name = last.name

\* C5: after a re-tag of category N with a non-empty keyword list K (RetagAll
\* or the single-category re-tag), the courses carrying N are exactly the
\* courses scoring >= TAG_THRESHOLD x the highest score for K: no course that
\* carried N before and now scores lower, or does not match, keeps N.
C5_RetagYieldsThresholdSet ==
    \A id \in CatIds :
        (Processed(id) /\ categories[id].keywords # {})
            => Tagged(courses, categories[id].name) = ThresholdSet(categories[id].keywords)

\* C5, root layout only: the walk over the descending result list, after the
\* clear, leaves exactly the threshold set.
C5_WalkYieldsThresholdSet ==
    deployment = "utils" => C5_RetagYieldsThresholdSet

\* C6: after RetagAll or the single-category re-tag has processed a category
\* whose keyword list is empty, no course carries that category's name.
C6_EmptyKeywordsLeaveNoTag ==
    \A id \in CatIds :
        (Processed(id) /\ categories[id].keywords = {})
            => Tagged(courses, categories[id].name) = {}

\* C7: every name in every course's category set is the name of a category
\* that currently exists.
C7_NoDanglingCategoryName ==
    \A c \in CourseIds : \A n \in courses[c].categories :
        \E id \in CatIds : Present(id) /\ categories[id].name = n

\* C8: a delete-category step for a category named N leaves no course with N
\* in its category set and keeps every other name of every course.
C8_DeleteCascades ==
    [][\A id \in CatIds :
          (categories[id].present /\ ~categories'[id].present)
              => \A c \in CourseIds :
                    courses'[c].categories
                        = courses[c].categories \ {categories[id].name}]_vars

\* C8 witness: a delete has just removed its name from a course that carried
\* it, and a course still carries another name.
C8_Witness ==
    /\ last.op = "delete_category"
    /\ last.hit
    /\ Tagged(courses, last.name) = {}
    /\ \E c \in CourseIds : courses[c].categories # {}

\* C9: a RetagAll that directly follows a RetagAll leaves every course's
\* category set as the first one left it.
C9_RetagAllIdempotent ==
    [][(last.op = "retag_all" /\ last'.op = "retag_all")
          => \A c \in CourseIds : courses'[c].categories = courses[c].categories]_vars

\* C9 witness: a second RetagAll in a row has run with tagged courses and
\* with two categories stored.
C9_Witness ==
    /\ last.op = "retag_all"
    /\ last.again
    /\ \A id \in CatIds : Present(id) /\ categories[id].keywords # {}
    /\ \E c, d \in CourseIds : courses[c].categories # courses[d].categories

(***************************************************************************)
(* Keyword queue and search-demand records (keyword_queue module).         *)
(***************************************************************************)
\* an upsert that $sets scraped = False also on an existing document
enqueue_reset(q, k) ==
    IF \E i \in DOMAIN q : q[i].keyword = k
    THEN [i \in DOMAIN q |->
             IF q[i].keyword = k THEN [q[i] EXCEPT !.scraped = FALSE] ELSE q[i]]
    ELSE Append(q, [keyword |-> k, scraped |-> FALSE])

\* kw_coll.find_one_and_update({"keyword": k}, {"$setOnInsert": ...}, upsert)
enqueue(q, k) ==
    IF \E i \in DOMAIN q : q[i].keyword = k THEN q
    ELSE Append(q, [keyword |-> k, scraped |-> FALSE])

\* seed_defaults: the same upsert for each keyword of the list
RECURSIVE SeedAll(_, _)
SeedAll(q, defaults) ==
    IF defaults = <<>> THEN q
    ELSE SeedAll(enqueue(q, Head(defaults)), Tail(defaults))

\* [doc["keyword"] for doc in kw_coll.find({"scraped": False})]
RECURSIVE PendingKeywordsFrom(_, _)
PendingKeywordsFrom(q, i) ==
    IF i > Len(q) THEN <<>>
    ELSE (IF q[i].scraped THEN <<>> ELSE <<q[i].keyword>>)
             \o PendingKeywordsFrom(q, i + 1)

get_pending_keywords(q) == PendingKeywordsFrom(q, 1)

\* kw_coll.update_one({"keyword": k}, {"$set": {"scraped": True}}): the first
\* document with that keyword
mark_scraped(q, k) ==
    IF \E i \in DOMAIN q : q[i].keyword = k
    THEN LET first == CHOOSE i \in DOMAIN q :
                          /\ q[i].keyword = k
                          /\ \A j \in DOMAIN q : q[j].keyword = k => i <= j
         IN  [q EXCEPT ![first].scraped = TRUE]
    ELSE q

\* `for kw in pending: ...scrape...; mark_scraped(kw)`
RECURSIVE ScrapeAll(_, _)
ScrapeAll(q, pending) ==
    IF pending = <<>> THEN q
    ELSE ScrapeAll(mark_scraped(q, Head(pending)), Tail(pending))

\* reqs_coll.find_one({"user_id": u, "keyword": k, "notified": False})
find_pending(reqs, u, k) ==
    \E i \in DOMAIN reqs :
        reqs[i].user_id = u /\ reqs[i].keyword = k /\ ~reqs[i].notified

\* reqs_coll.insert_one({... "notified": False})
insert_request(reqs, u, k) ==
    Append(reqs, [user_id |-> u, keyword |-> k, notified |-> FALSE])

\* an add_request that inserts without looking for a pending record
add_request_unchecked(reqs, u, k) == insert_request(reqs, u, k)

add_request(reqs, u, k) ==
    IF ~find_pending(reqs, u, k) THEN insert_request(reqs, u, k) ELSE reqs

\* list(reqs_coll.find({"notified": False})): the ids, in stored order
RECURSIVE PendingFrom(_, _)
PendingFrom(reqs, i) ==
    IF i > Len(reqs) THEN <<>>
    ELSE (IF reqs[i].notified THEN <<>> ELSE <<i>>) \o PendingFrom(reqs, i + 1)

get_pending(reqs) == PendingFrom(reqs, 1)

\* reqs_coll.update_one({"_id": i}, {"$set": {"notified": True, ...}})
mark_notified(reqs, i) == [reqs EXCEPT ![i].notified = TRUE]

(***************************************************************************)
(* Notification service.                                                   *)
(***************************************************************************)
\* the Notification document of process_search_requests; `for` records the
\* search request it was created for, `handed` whether a hand-off to the
\* delivery channel has succeeded for it
Note(i, k) ==
    [for |-> i, keyword |-> k, read |-> FALSE, sent |-> FALSE, handed |-> FALSE]

\* users.update_one({"_id": u}, {"$push": {"notifications": note}}): matches
\* nothing when the user document is gone
push_notification(us, u, note) ==
    IF us[u].present
    THEN [us EXCEPT ![u].notifications = Append(@, note)]
    ELSE us

\* the body of the loop of process_search_requests for the request with id i
ProcessRequest(st, cs, i) ==
    IF Matching(cs, {st.reqs[i].keyword}) # {}
    THEN [users |-> push_notification(st.users, st.reqs[i].user_id,
                                      Note(i, st.reqs[i].keyword)),
          reqs  |-> mark_notified(st.reqs, i)]
    ELSE st

RECURSIVE ProcessAll(_, _, _)
ProcessAll(st, cs, pending) ==
    IF pending = <<>> THEN st
    ELSE ProcessAll(ProcessRequest(st, cs, Head(pending)), cs, Tail(pending))

\* a dispatch that hands the notifications over and marks none of them sent
DispatchNoMark(us, failing) ==
    [u \in UserIds |->
        [us[u] EXCEPT !.notifications =
            [j \in DOMAIN us[u].notifications |->
                IF us[u].notifications[j].sent THEN us[u].notifications[j]
                ELSE [us[u].notifications[j] EXCEPT
                         !.handed = (u \notin failing)]]]]

\* dispatch_notifications: every unsent notification of every user is handed
\* to the delivery channel (log.info, whose outcome the code does not see;
\* the hand-off fails for the users in `failing`) and then marked sent
DispatchAll(us, failing) ==
    [u \in UserIds |->
        [us[u] EXCEPT !.notifications =
            [j \in DOMAIN us[u].notifications |->
                IF us[u].notifications[j].sent THEN us[u].notifications[j]
                ELSE [us[u].notifications[j] EXCEPT
                         !.handed = (u \notin failing), !.sent = TRUE]]]]

(***************************************************************************)
(* Requests and jobs, each as one step (no two of them overlap).           *)
(***************************************************************************)
\* the course documents a scraper run can bring
ScrapedTexts == {t \in [Terms -> {0, 8}] : \E k \in Terms : t[k] > 0 /\ \A j \in Terms \ {k} : t[j] = 0}

NoCourse == [present |-> FALSE, text |-> [k \in Terms |-> 0], categories |-> {}]

\* bulk_write of UpdateOne({"course_id": ...}, {"$set": doc}, upsert=True) for
\* a course that is not yet stored
step_ingest(c, text) ==
    /\ ~courses[c].present
    /\ \A d \in CourseIds : d < c => courses[d].present
    /\ courses' = [courses EXCEPT
                      ![c] = [present |-> TRUE, text |-> text, categories |-> {}]]
    /\ last' = Did("step_ingest", "", FALSE)
    /\ UNCHANGED <<deployment, tagVars, demandVars, threadVars, rankVars, sentVars, otherVars>>

\* GET /courses/search as far as it writes: the zero-result branch
search_courses(u, k) ==
    /\ u # None => users[u].present
    /\ LET zero == QueryDocs(courses, {k}) = <<>>
       IN  /\ keyword_queue' = IF zero /\ deployment = "app"
                               THEN enqueue(keyword_queue, k)
                               ELSE keyword_queue
           /\ search_requests' = IF zero /\ u # None
                                 THEN add_request(search_requests, u, k)
                                 ELSE search_requests
           /\ last' = [op |-> "search_courses", name |-> k, hit |-> zero,
                       again |-> (/\ last.op = "search_courses" /\ last.hit
                                  /\ last.name = k /\ last.user = u),
                       user |-> u, top_k |-> 0]
    /\ Len(search_requests') <= MaxReqs
    /\ UNCHANGED <<deployment, courses, tagVars, users, threadVars, rankVars, sentVars, otherVars>>

\* keyword_queue.seed_defaults(defaults) of the startup hook
seed_defaults(defaults) ==
    /\ keyword_queue' = SeedAll(keyword_queue, defaults)
    /\ last' = Did("seed_defaults", "", FALSE)
    /\ UNCHANGED <<deployment, courses, tagVars, users, search_requests,
                   threadVars, rankVars, sentVars, otherVars>>

\* run_scrapers_for_pending / step_scrapers: every pending keyword is scraped
\* and marked
run_scrapers_for_pending ==
    /\ keyword_queue' = ScrapeAll(keyword_queue, get_pending_keywords(keyword_queue))
    /\ last' = Did("run_scrapers_for_pending", "", FALSE)
    /\ UNCHANGED <<deployment, courses, tagVars, users, search_requests,
                   threadVars, rankVars, sentVars, otherVars>>

\* one whole run of process_search_requests
process_search_requests ==
    /\ LET st == ProcessAll([users |-> users, reqs |-> search_requests],
                            courses, get_pending(search_requests))
       IN  /\ users' = st.users
           /\ search_requests' = st.reqs
    /\ last' = Did("process_search_requests", "", FALSE)
    /\ UNCHANGED <<deployment, courses, tagVars, keyword_queue, threadVars, rankVars, sentVars, otherVars>>

\* one whole run of dispatch_notifications
dispatch_notifications(failing) ==
    /\ users' = DispatchAll(users, failing)
    /\ last' = Did("dispatch_notifications", "", FALSE)
    /\ UNCHANGED <<deployment, courses, tagVars, search_requests, keyword_queue,
                   threadVars, rankVars, sentVars, otherVars>>

\* DELETE /admin/users/{id}: the user document goes, nothing else
delete_user(u) ==
    /\ users[u].present
    /\ users' = [users EXCEPT ![u] = [present |-> FALSE, notifications |-> <<>>]]
    /\ last' = Did("delete_user", "", FALSE)
    /\ UNCHANGED <<deployment, courses, tagVars, search_requests, keyword_queue,
                   threadVars, rankVars, sentVars, otherVars>>

(***************************************************************************)
(* SpecDemand: searches, ingestion and notification passes, one at a time. *)
(***************************************************************************)
InitDemand ==
    /\ deployment \in {"utils", "app"}
    /\ courses = [c \in CourseIds |-> NoCourse]
    /\ categories = [id \in CatIds |-> NoCategory]
    /\ changes = <<>>
    /\ NoDemand
    /\ NoThreads
    /\ NoJobs
    /\ NoTaggers
    /\ NoIndexing
    /\ NoRanking
    /\ NoSentiment
    /\ last = NoOp

NextDemand ==
    \/ \E c \in CourseIds, text \in ScrapedTexts : step_ingest(c, text)
    \/ \E u \in UserIds \cup {None}, k \in Terms : search_courses(u, k)
    \/ \E len \in 1..2 : \E defaults \in [1..len -> Terms] : seed_defaults(defaults)
    \/ run_scrapers_for_pending
    \/ process_search_requests
    \/ \E failing \in SUBSET UserIds : dispatch_notifications(failing)
    \/ \E u \in UserIds : delete_user(u)

SpecDemand == InitDemand /\ [][NextDemand]_vars

(***************************************************************************)
(* Properties of the demand tracker, one request or job at a time.         *)
(***************************************************************************)
\* the un-notified search requests of user u for keyword k
PendingOf(reqs, u, k) ==
    {i \in DOMAIN reqs :
        reqs[i].user_id = u /\ reqs[i].keyword = k /\ ~reqs[i].notified}

\* the notifications of user u created for search request i
NotesFor(us, u, i) ==
    {j \in DOMAIN us[u].notifications : us[u].notifications[j].for = i}

\* C3: a zero-result Search by user U for keyword K adds exactly one record
\* (U, K, notified = false) when U has no un-notified record for K, and leaves
\* the search requests unchanged when U has one; after it U has exactly one
\* un-notified record for K.
C3_SearchRecordsDemandOnce ==
    [][\A u \in UserIds, k \in Terms :
          (/\ last'.op = "search_courses" /\ last'.hit
           /\ last'.user = u /\ last'.name = k)
              => /\ IF PendingOf(search_requests, u, k) # {}
                    THEN search_requests' = search_requests
                    ELSE search_requests'
                             = Append(search_requests,
                                      [user_id |-> u, keyword |-> k,
                                       notified |-> FALSE])
                 /\ Cardinality(PendingOf(search_requests', u, k)) = 1]_vars

\* C3 witness: the same user has searched the same keyword twice in a row
\* without results, and holds one un-notified record for it.
C3_Witness ==
    /\ last.op = "search_courses" /\ last.hit /\ last.again
    /\ last.user # None
    /\ Cardinality(PendingOf(search_requests, last.user, last.name)) = 1

\* C28: no search request becomes notified without a Notification for it
\* reaching its user: every step that flips a record to notified = true also
\* appends a Notification for that record to the list of a stored user, also
\* when the user was deleted before the pass.
C28_NotifiedMeansDelivered ==
    [][\A i \in DOMAIN search_requests :
          (~search_requests[i].notified /\ search_requests'[i].notified)
              => LET u == search_requests[i].user_id
                 IN  /\ users'[u].present
                     /\ NotesFor(users', u, i) \ NotesFor(users, u, i) # {}]_vars

\* the same while the record's user is stored
C28_StoredUserGetsNotification ==
    [][\A i \in DOMAIN search_requests :
          (/\ ~search_requests[i].notified /\ search_requests'[i].notified
           /\ users[search_requests[i].user_id].present)
              => NotesFor(users', search_requests[i].user_id, i)
                     \ NotesFor(users, search_requests[i].user_id, i) # {}]_vars

\* C29: after a zero-result Search for keyword K, K is outstanding ingestion
\* demand: the queue has an entry for K with scraped = false, so that
\* get_pending_keywords hands K to the next ingestion run, also when K had
\* been enqueued and marked scraped before the Search.
C29_ZeroResultSearchIsPending ==
    (last.op = "search_courses" /\ last.hit)
        => \E i \in DOMAIN get_pending_keywords(keyword_queue) :
              get_pending_keywords(keyword_queue)[i] = last.name

\* C29 in the packaged layout, whose Search does enqueue: after a zero-result
\* Search for K the queue entry for K is pending, also when K had been
\* scraped before.
C29_PackagedSearchIsPending ==
    (deployment = "app") => C29_ZeroResultSearchIsPending

\* what a pass of ProcessSearchRequests does to the pending record i whose
\* keyword has a matching course
NotifiedOnce(i) ==
    LET u == search_requests[i].user_id
    IN  /\ search_requests'[i].notified
        /\ Cardinality(NotesFor(users', u, i))
               = Cardinality(NotesFor(users, u, i)) + 1
        /\ \A j \in NotesFor(users', u, i) \ NotesFor(users, u, i) :
               /\ ~users'[u].notifications[j].sent
               /\ ~users'[u].notifications[j].read

\* C4: a pass of ProcessSearchRequests sets notified = true on every pending
\* record whose keyword has a matching course and appends exactly one
\* Notification (sent = false, read = false) for it to the record's user; a
\* pass that directly follows a pass changes neither records nor users.
C4_PassNotifiesEachPendingRecord ==
    [][last'.op = "process_search_requests"
          => /\ \A i \in DOMAIN search_requests :
                   (/\ ~search_requests[i].notified
                    /\ Matching(courses, {search_requests[i].keyword}) # {})
                       => NotifiedOnce(i)
             /\ last.op = "process_search_requests"
                   => UNCHANGED <<users, search_requests>>]_vars

\* C4, for the records whose user is still stored: the pass notifies each of
\* them once, and a directly following pass changes nothing.
C4_PassNotifiesStoredUsers ==
    [][last'.op = "process_search_requests"
          => /\ \A i \in DOMAIN search_requests :
                   (/\ ~search_requests[i].notified
                    /\ users[search_requests[i].user_id].present
                    /\ Matching(courses, {search_requests[i].keyword}) # {})
                       => NotifiedOnce(i)
             /\ last.op = "process_search_requests"
                   => UNCHANGED <<users, search_requests>>]_vars

(***************************************************************************)
(* The same handlers statement by statement: request threads inside        *)
(* search_courses, and the runs of process_search_requests that the        *)
(* watch_notifications thread, the ingestion pipeline threads and the      *)
(* admin notify task start.  Every database call is one step.              *)
(***************************************************************************)
InFlight == {t \in SearchThreads : searchers[t].pc # "idle"}

\* the $text query of search_courses and the test `if not docs`
search_query(t, u, k) ==
    /\ searchers[t].pc = "idle"
    /\ Len(search_requests) + Cardinality(InFlight) < MaxReqs
    /\ LET zero == QueryDocs(courses, {k}) = <<>>
           next == IF ~zero THEN "idle"
                   ELSE IF deployment = "app" THEN "enqueue"
                   ELSE IF u # None THEN "find" ELSE "idle"
       IN  searchers' = [searchers EXCEPT ![t] =
                            IF next = "idle" THEN IdleSearcher
                            ELSE [pc |-> next, user |-> u, keyword |-> k]]
    /\ UNCHANGED <<deployment, courses, tagVars, demandVars, notifiers,
                   rankVars, sentVars, otherVars, last>>

\* keyword_queue.enqueue(q), then `if current_user:`
search_enqueue(t) ==
    /\ searchers[t].pc = "enqueue"
    /\ keyword_queue' = enqueue(keyword_queue, searchers[t].keyword)
    /\ searchers' = [searchers EXCEPT ![t] =
                        IF searchers[t].user # None
                        THEN [@ EXCEPT !.pc = "find"]
                        ELSE IdleSearcher]
    /\ UNCHANGED <<deployment, courses, tagVars, users, search_requests,
                   notifiers, rankVars, sentVars, otherVars, last>>

\* add_request: existing = reqs_coll.find_one(...); `if not existing:`
add_request_find(t) ==
    /\ searchers[t].pc = "find"
    /\ searchers' = [searchers EXCEPT ![t] =
                        IF find_pending(search_requests, searchers[t].user,
                                        searchers[t].keyword)
                        THEN IdleSearcher
                        ELSE [@ EXCEPT !.pc = "insert"]]
    /\ UNCHANGED <<deployment, courses, tagVars, demandVars, notifiers,
                   rankVars, sentVars, otherVars, last>>

\* add_request: reqs_coll.insert_one(...)
add_request_insert(t) ==
    /\ searchers[t].pc = "insert"
    /\ search_requests' = insert_request(search_requests, searchers[t].user,
                                         searchers[t].keyword)
    /\ searchers' = [searchers EXCEPT ![t] = IdleSearcher]
    /\ UNCHANGED <<deployment, courses, tagVars, users, keyword_queue,
                   notifiers, rankVars, sentVars, otherVars, last>>

\* process_search_requests: pending = keyword_queue.get_pending()
psr_get_pending(p) ==
    /\ notifiers[p].pc = "idle"
    /\ notifiers' = [notifiers EXCEPT
                        ![p] = [pc |-> "count",
                                pending |-> get_pending(search_requests)]]
    /\ UNCHANGED <<deployment, courses, tagVars, demandVars, searchers,
                   rankVars, sentVars, otherVars, last>>

\* `for req in pending:` and `if count_documents({"$text": ...}) > 0:`
psr_count(p) ==
    /\ notifiers[p].pc = "count"
    /\ LET pending == notifiers[p].pending
       IN  notifiers' = [notifiers EXCEPT ![p] =
               IF pending = <<>> THEN IdleNotifier
               ELSE IF Matching(courses,
                                {search_requests[Head(pending)].keyword}) # {}
               THEN [@ EXCEPT !.pc = "push"]
               ELSE [@ EXCEPT !.pending = Tail(pending)]]
    /\ UNCHANGED <<deployment, courses, tagVars, demandVars, searchers,
                   rankVars, sentVars, otherVars, last>>

\* db["users"].update_one({"_id": user_id}, {"$push": {"notifications": note}})
psr_push(p) ==
    /\ notifiers[p].pc = "push"
    /\ LET i == Head(notifiers[p].pending)
       IN  users' = push_notification(users, search_requests[i].user_id,
                                      Note(i, search_requests[i].keyword))
    /\ notifiers' = [notifiers EXCEPT ![p].pc = "mark"]
    /\ UNCHANGED <<deployment, courses, tagVars, search_requests,
                   keyword_queue, searchers, rankVars, sentVars, otherVars, last>>

\* keyword_queue.mark_notified(req["_id"])
psr_mark(p) ==
    /\ notifiers[p].pc = "mark"
    /\ search_requests' = mark_notified(search_requests,
                                        Head(notifiers[p].pending))
    /\ notifiers' = [notifiers EXCEPT
                        ![p] = [pc |-> "count", pending |-> Tail(@.pending)]]
    /\ UNCHANGED <<deployment, courses, tagVars, users, keyword_queue,
                   searchers, rankVars, sentVars, otherVars, last>>

\* a scraper run stores a new course while requests are in flight
ingest_course(c, text) ==
    /\ ~courses[c].present
    /\ \A d \in CourseIds : d < c => courses[d].present
    /\ courses' = [courses EXCEPT
                      ![c] = [present |-> TRUE, text |-> text, categories |-> {}]]
    /\ UNCHANGED <<deployment, tagVars, demandVars, threadVars, rankVars, sentVars, otherVars, last>>

(***************************************************************************)
(* SpecRace: the threads of one server process, interleaved.               *)
(***************************************************************************)
InitRace == InitDemand

NextRace ==
    \/ \E t \in SearchThreads, u \in UserIds \cup {None}, k \in Terms :
           search_query(t, u, k)
    \/ \E t \in SearchThreads : search_enqueue(t)
    \/ \E t \in SearchThreads : add_request_find(t)
    \/ \E t \in SearchThreads : add_request_insert(t)
    \/ \E p \in NotifyThreads : psr_get_pending(p)
    \/ \E p \in NotifyThreads : psr_count(p)
    \/ \E p \in NotifyThreads : psr_push(p)
    \/ \E p \in NotifyThreads : psr_mark(p)
    \/ \E c \in CourseIds, text \in ScrapedTexts : ingest_course(c, text)

SpecRace == InitRace /\ [][NextRace]_vars

(***************************************************************************)
(* Properties of the demand tracker under interleaving.                    *)
(***************************************************************************)
\* C1: for every search request, at most one Notification has been appended
\* to its user's list on its behalf, whatever the interleaving of the runs of
\* process_search_requests.
C1_AtMostOneNotificationPerRecord ==
    \A i \in DOMAIN search_requests :
        Cardinality(NotesFor(users, search_requests[i].user_id, i)) <= 1

\* C2: every (user, keyword) pair has at most one search request with
\* notified = false, whatever the interleaving of the Search requests.
C2_AtMostOnePendingPerPair ==
    \A u \in UserIds, k \in Terms :
        Cardinality(PendingOf(search_requests, u, k)) <= 1

(***************************************************************************)
(* Rank: the composite score of Search and of the category listing.        *)
(* A real number x is the integer x * Micro; a composite score is kept     *)
(* times 2 * WeightDen, so that the formula of the code is exact:          *)
(*   ranking = ALPHA*text_norm + (1-ALPHA)*(sent+1)/2 + BETA*log(1+n).     *)
(***************************************************************************)
Micro == 10 ^ 6

\* one unit of the fourth decimal, in the scale of a composite score
RoundUnit == 2 * WeightDen * (Micro \div 10 ^ 4)

\* the values the fields of a candidate take
Scores     == {1, 2}
Sentiments == {-500000, 0, 100, 200}
Reviews    == {0, 1}

\* math.log(1 + n), times Micro
LnMicro == <<0, 693147, 1098612, 1386294>>
pop_weight(n) == LnMicro[1 + n]

\* max(d.get("score", 0) for d in docs) or 1.0
max_score(docs) ==
    LET m == CHOOSE s \in {docs[i].score : i \in DOMAIN docs} :
                \A i \in DOMAIN docs : docs[i].score <= s
    IN  IF m = 0 THEN 1 ELSE m

\* d["score"] / max_score, times Micro
text_norm(d, max) == (d.score * Micro) \div max

\* the composite score, times 2 * WeightDen
ranking(tn, sent, n) ==
    2 * AlphaNum * tn + (WeightDen - AlphaNum) * (sent + Micro)
        + 2 * BetaNum * pop_weight(n)

\* round(x, 4) of a composite score, in units of the fourth decimal: to the
\* nearest, a tie to the even neighbour
Round4(x) ==
    LET q == x \div RoundUnit
        r == x % RoundUnit
    IN  IF 2 * r > RoundUnit THEN q + 1
        ELSE IF 2 * r < RoundUnit THEN q
        ELSE IF q % 2 = 0 THEN q ELSE q + 1

\* the response item of a candidate; `exact` keeps the score before rounding
Summary(d, tn) ==
    [course_id |-> d.course_id,
     text_norm |-> tn,
     ranking_score |-> Round4(ranking(tn, d.sent, d.n)),
     exact |-> ranking(tn, d.sent, d.n)]

\* list.sort(key=lambda c: c.ranking_score, reverse=True): stable, an item
\* goes behind the items whose key is not smaller
RECURSIVE InsertDesc(_, _)
InsertDesc(sorted, x) ==
    IF sorted = <<>> THEN <<x>>
    ELSE IF Head(sorted).ranking_score >= x.ranking_score
         THEN <<Head(sorted)>> \o InsertDesc(Tail(sorted), x)
         ELSE <<x>> \o sorted

RECURSIVE SortDesc(_, _)
SortDesc(sorted, rest) ==
    IF rest = <<>> THEN sorted
    ELSE SortDesc(InsertDesc(sorted, Head(rest)), Tail(rest))

\* cursor.limit(n) and results[:n]
Take(seq, n) == SubSeq(seq, 1, IF n < Len(seq) THEN n ELSE Len(seq))

\* search_courses from `docs = list(cursor)` on, for a non-empty result
search_ranking(top_k) ==
    /\ candidates # <<>>
    /\ LET docs == Take(candidates, top_k * 5)
           max  == max_score(docs)
           out  == [i \in DOMAIN docs |-> Summary(docs[i], text_norm(docs[i], max))]
       IN  results' = Take(SortDesc(<<>>, out), top_k)
    /\ last' = [Did("search_ranking", "", FALSE) EXCEPT !.top_k = top_k]
    /\ UNCHANGED <<deployment, courses, tagVars, demandVars, threadVars,
                   candidates, sentVars, otherVars>>

\* the category listing: text_norm is 0 for every course
get_courses_by_category ==
    /\ LET out == [i \in DOMAIN candidates |-> Summary(candidates[i], 0)]
       IN  results' = SortDesc(<<>>, out)
    /\ last' = Did("get_courses_by_category", "", FALSE)
    /\ UNCHANGED <<deployment, courses, tagVars, demandVars, threadVars,
                   candidates, sentVars, otherVars>>

(***************************************************************************)
(* SpecRank: ranking requests over a result list of the store.             *)
(***************************************************************************)
InitRank ==
    /\ deployment \in {"utils", "app"}
    /\ courses = [c \in CourseIds |-> NoCourse]
    /\ categories = [id \in CatIds |-> NoCategory]
    /\ changes = <<>>
    /\ NoDemand
    /\ NoThreads
    /\ NoJobs
    /\ NoTaggers
    /\ NoIndexing
    /\ \E len \in 1..MaxLen :
          /\ candidates \in [1..len -> [course_id : 1..MaxLen, score : Scores,
                                        sent : Sentiments, n : Reviews]]
          /\ \A i \in 1..len : candidates[i].course_id = i
          /\ \A i, j \in 1..len : i < j => candidates[i].score >= candidates[j].score
    /\ results = <<>>
    /\ NoSentiment
    /\ last = NoOp

NextRank ==
    \/ \E top_k \in 1..MaxLen : search_ranking(top_k)
    \/ get_courses_by_category

SpecRank == InitRank /\ [][NextRank]_vars

(***************************************************************************)
(* SpecNorm: the same requests over result lists whose raw relevance       *)
(* scores are any non-negative values, 0 included.                         *)
(***************************************************************************)
RawScores == {0} \cup Scores

InitNorm ==
    /\ deployment \in {"utils", "app"}
    /\ courses = [c \in CourseIds |-> NoCourse]
    /\ categories = [id \in CatIds |-> NoCategory]
    /\ changes = <<>>
    /\ NoDemand
    /\ NoThreads
    /\ NoJobs
    /\ NoTaggers
    /\ NoIndexing
    /\ \E len \in 1..MaxLen :
          /\ candidates \in [1..len -> [course_id : 1..MaxLen, score : RawScores,
                                        sent : {0}, n : Reviews]]
          /\ \A i \in 1..len : candidates[i].course_id = i
          /\ \A i, j \in 1..len : i < j => candidates[i].score >= candidates[j].score
    /\ results = <<>>
    /\ NoSentiment
    /\ last = NoOp

SpecNorm == InitNorm /\ [][NextRank]_vars

\* C24: in the response of a Search over a non-empty candidate set with
\* non-negative raw scores, every text_norm lies in [0, 1], and a candidate
\* with the highest raw score has text_norm = 1, also when that score is 0.
C24_TextNormOfBestIsOne ==
    last.op = "search_ranking" =>
        /\ \A i \in DOMAIN results :
              results[i].text_norm >= 0 /\ results[i].text_norm <= Micro
        /\ last.top_k >= Len(candidates) =>
              \A i \in DOMAIN results :
                  candidates[results[i].course_id].score = candidates[1].score
                      => results[i].text_norm = Micro

\* the same for candidate sets whose highest raw score is positive
C24_TextNormOfPositiveBestIsOne ==
    candidates[1].score > 0 => C24_TextNormOfBestIsOne

\* C10: in a response of Search or of the category listing, a candidate whose
\* unrounded composite score is strictly greater than another's stands before
\* it, also when both round to the same 4-decimal value.
C10_OrderedByExactScore ==
    \A i, j \in DOMAIN results :
        results[i].exact > results[j].exact => i < j

\* the unrounded composite score of the candidate at position d of docs
ExactRanking(docs, d) ==
    ranking(text_norm(docs[d], max_score(docs)), docs[d].sent, docs[d].n)

\* C11: the response of a Search with candidates has min(top_k, number of
\* candidates) items, no returned course has a lower composite score than a
\* candidate left out, and returned courses of equal composite score stand in
\* their input order.
C11_TopKOfStableSort ==
    last.op = "search_ranking" =>
        LET docs     == Take(candidates, last.top_k * 5)
            returned == {results[i].course_id : i \in DOMAIN results}
        IN  /\ Len(results) = (IF last.top_k < Len(docs) THEN last.top_k
                               ELSE Len(docs))
            /\ \A i \in DOMAIN results, d \in DOMAIN docs :
                   docs[d].course_id \notin returned
                       => results[i].exact >= ExactRanking(docs, d)
            /\ \A i, j \in DOMAIN results :
                   (i < j /\ results[i].exact = results[j].exact)
                       => results[i].course_id < results[j].course_id

(***************************************************************************)
(* Float arithmetic of the sentiment metrics.  A float is m * 2^e with a   *)
(* mantissa m of MantissaBits bits (m = 0, or 2^(MantissaBits-1) <= m <    *)
(* 2^MantissaBits); every operation returns the float nearest to the exact *)
(* result, a tie going to the even mantissa, as IEEE 754 doubles do with   *)
(* their 53 bits.  Only non-negative values occur.                         *)
(***************************************************************************)
\* the float nearest to (a / b) * 2^e, for integers a >= 0 and b > 0
RECURSIVE Norm(_, _, _)
Norm(a, b, e) ==
    IF a = 0 THEN Zero
    ELSE IF a >= b * 2 ^ MantissaBits THEN Norm(a, 2 * b, e + 1)
    ELSE IF a < b * 2 ^ (MantissaBits - 1) THEN Norm(2 * a, b, e - 1)
    ELSE LET q == a \div b
             r == a % b
             m == IF 2 * r > b \/ (2 * r = b /\ q % 2 = 1) THEN q + 1 ELSE q
         IN  IF m = 2 ^ MantissaBits
             THEN [m |-> 2 ^ (MantissaBits - 1), e |-> e + 1]
             ELSE [m |-> m, e |-> e]

MinExp(x, y) == IF x.e < y.e THEN x.e ELSE y.e

\* x.m * 2^x.e in units of 2^k, for k <= x.e
Scaled(x, k) == x.m * 2 ^ (x.e - k)

FromInt(n)  == Norm(n, 1, 0)
fadd(x, y)  == Norm(Scaled(x, MinExp(x, y)) + Scaled(y, MinExp(x, y)), 1, MinExp(x, y))
fmul(x, y)  == Norm(x.m * y.m, 1, x.e + y.e)
fdiv(x, y)  == Norm(x.m, y.m, x.e - y.e)
fle(x, y)   == Scaled(x, MinExp(x, y)) <= Scaled(y, MinExp(x, y))

\* sum(list): from the left
RECURSIVE fsum(_, _)
fsum(acc, xs) == IF xs = <<>> THEN acc ELSE fsum(fadd(acc, Head(xs)), Tail(xs))

(***************************************************************************)
(* Sentiment enrichment.                                                   *)
(***************************************************************************)
\* the polarities TextBlob gives to the review texts of the model
Polarities == {Norm(10, 16, 0), Norm(15, 16, 0)}

\* a scraped review: its text (known by its polarity), no sentiment_score
NewReview(text) == [text |-> text, scored |-> FALSE, sentiment_score |-> Zero]

\* TextBlob(text).sentiment.polarity
Polarity(text) == text

\* a comprehension that takes every review, scored or not
ScoresOfEvery(rs) == [i \in DOMAIN rs |-> rs[i].sentiment_score]

\* [r["sentiment_score"] for r in reviews if "sentiment_score" in r]
RECURSIVE ScoresOf(_)
ScoresOf(rs) ==
    IF rs = <<>> THEN <<>>
    ELSE (IF Head(rs).scored THEN <<Head(rs).sentiment_score>> ELSE <<>>)
             \o ScoresOf(Tail(rs))

\* all_scores: the scores of every stored course, in find() order
RECURSIVE AllScoresFrom(_, _, _)
AllScoresFrom(cs, rv, c) ==
    IF c > NumCourses THEN <<>>
    ELSE (IF cs[c].present THEN ScoresOf(rv[c]) ELSE <<>>)
             \o AllScoresFrom(cs, rv, c + 1)

\* sum(all_scores) / len(all_scores) if all_scores else 0.0
GlobalMean(all_scores) ==
    IF all_scores # <<>>
    THEN fdiv(fsum(Zero, all_scores), FromInt(Len(all_scores)))
    ELSE Zero

\* the $set of aggregate_course_metrics for a course with these scores
CourseMetrics(scores, global_mean) ==
    LET n == Len(scores)
    IN  [set |-> TRUE,
         num_reviews |-> n,
         avg_sentiment |-> IF n # 0 THEN fdiv(fsum(Zero, scores), FromInt(n))
                           ELSE Zero,
         smoothed_sentiment |->
             IF Pseudocount + n # 0
             THEN fdiv(fadd(fmul(FromInt(Pseudocount), global_mean),
                            fsum(Zero, scores)),
                       FromInt(Pseudocount + n))
             ELSE global_mean]

\* the $set of score_new_reviews on a reviews array: every review without a
\* sentiment_score gets the polarity of its text
ScoreMissing(rs) ==
    [i \in DOMAIN rs |->
        IF rs[i].scored THEN rs[i]
        ELSE [rs[i] EXCEPT !.scored = TRUE, !.sentiment_score = Polarity(rs[i].text)]]

\* a $match that selects every review, scored or not
EveryReview(cs, rv) ==
    {<<c, i>> \in CourseIds \X (1..MaxReviews) :
        cs[c].present /\ i \in DOMAIN rv[c]}

\* the reviews the $match {"reviews.sentiment_score": {"$exists": False}} of
\* score_new_reviews selects: one update each
Unscored(cs, rv) ==
    {<<c, i>> \in CourseIds \X (1..MaxReviews) :
        cs[c].present /\ i \in DOMAIN rv[c] /\ ~rv[c][i].scored}

\* ingestion upsert {"$set": doc} of course c: the scraped document carries
\* its own reviews array, without scores
upsert_course(c, texts) ==
    /\ \A d \in CourseIds : d < c => courses[d].present
    /\ courses' = [courses EXCEPT ![c] =
                      [present |-> TRUE, text |-> [k \in Terms |-> 1],
                       categories |-> {}]]
    /\ reviews' = [reviews EXCEPT ![c] = [i \in DOMAIN texts |-> NewReview(texts[i])]]
    /\ last' = Did("upsert_course", "", FALSE)
    /\ UNCHANGED <<deployment, tagVars, demandVars, threadVars, rankVars, metrics,
                   otherVars>>

score_new_reviews ==
    /\ reviews' = [c \in CourseIds |->
                      IF courses[c].present THEN ScoreMissing(reviews[c])
                      ELSE reviews[c]]
    /\ last' = Did("score_new_reviews", "", Unscored(courses, reviews) # {})
    /\ UNCHANGED <<deployment, courses, tagVars, demandVars, threadVars,
                   rankVars, metrics,
                   otherVars>>

aggregate_course_metrics ==
    /\ LET global_mean == GlobalMean(AllScoresFrom(courses, reviews, 1))
       IN  metrics' = [c \in CourseIds |->
                          IF courses[c].present
                          THEN CourseMetrics(ScoresOf(reviews[c]), global_mean)
                          ELSE metrics[c]]
    /\ last' = Did("aggregate_course_metrics", "", FALSE)
    /\ UNCHANGED <<deployment, courses, tagVars, demandVars, threadVars,
                   rankVars, reviews,
                   otherVars>>

(***************************************************************************)
(* SpecSent: ingestion of reviews and the sentiment enrichment steps.      *)
(***************************************************************************)
InitSent == InitDemand

NextSent ==
    \/ \E c \in CourseIds, len \in 0..MaxReviews :
          \E texts \in [1..len -> Polarities] : upsert_course(c, texts)
    \/ score_new_reviews
    \/ aggregate_course_metrics

SpecSent == InitSent /\ [][NextSent]_vars

(***************************************************************************)
(* Properties of the sentiment enrichment.                                 *)
(***************************************************************************)
\* acc plus the scores of the scored reviews among the first k of rs
RECURSIVE SumInto(_, _, _)
SumInto(acc, rs, k) ==
    IF k = 0 THEN acc
    ELSE LET prev == SumInto(acc, rs, k - 1)
         IN  IF rs[k].scored THEN fadd(prev, rs[k].sentiment_score) ELSE prev

ScoredIn(c) == {i \in DOMAIN reviews[c] : reviews[c][i].scored}

\* n and S of a course
NumScored(c) == Cardinality(ScoredIn(c))
SumScored(c) == SumInto(Zero, reviews[c], Len(reviews[c]))

\* the sum of the scores of the stored courses 1..c
RECURSIVE TotalUpTo(_)
TotalUpTo(c) ==
    IF c = 0 THEN Zero
    ELSE IF courses[c].present
         THEN SumInto(TotalUpTo(c - 1), reviews[c], Len(reviews[c]))
         ELSE TotalUpTo(c - 1)

NumAllScored ==
    Cardinality({<<c, i>> \in CourseIds \X (1..MaxReviews) :
                    courses[c].present /\ i \in ScoredIn(c)})

\* the mean of all scored reviews of all stored courses, 0 without any
MeanOfAll ==
    IF NumAllScored = 0 THEN Zero
    ELSE fdiv(TotalUpTo(NumCourses), FromInt(NumAllScored))

\* C12: after AggregateCourseMetrics every stored course with n scored
\* reviews summing to S has num_reviews = n, avg_sentiment = S/n (0 when
\* n = 0) and smoothed_sentiment = (C*global_mean + S)/(C + n), global_mean
\* being the mean of all scored reviews of the store (0 without any); with
\* n = 0 the smoothed value is the global mean.
C12_MetricsAsSpecified ==
    last.op = "aggregate_course_metrics" =>
        \A c \in CourseIds : courses[c].present =>
            /\ metrics[c].set
            /\ metrics[c].num_reviews = NumScored(c)
            /\ metrics[c].avg_sentiment
                   = (IF NumScored(c) = 0 THEN Zero
                      ELSE fdiv(SumScored(c), FromInt(NumScored(c))))
            /\ metrics[c].smoothed_sentiment
                   = fdiv(fadd(fmul(FromInt(Pseudocount), MeanOfAll), SumScored(c)),
                          FromInt(Pseudocount + NumScored(c)))
            /\ NumScored(c) = 0 => metrics[c].smoothed_sentiment = MeanOfAll

\* the three stored fields follow their formulas, as the code evaluates them
C12_FormulasAsEvaluated ==
    last.op = "aggregate_course_metrics" =>
        \A c \in CourseIds : courses[c].present =>
            /\ metrics[c].set
            /\ metrics[c].num_reviews = NumScored(c)
            /\ metrics[c].avg_sentiment
                   = (IF NumScored(c) = 0 THEN Zero
                      ELSE fdiv(SumScored(c), FromInt(NumScored(c))))
            /\ metrics[c].smoothed_sentiment
                   = fdiv(fadd(fmul(FromInt(Pseudocount), MeanOfAll), SumScored(c)),
                          FromInt(Pseudocount + NumScored(c)))

\* C12 witness: metrics were just computed for a course without scored
\* reviews and for a course with two, one review of the store being unscored.
C12_Witness ==
    /\ last.op = "aggregate_course_metrics"
    /\ \E c, d \in CourseIds :
          /\ courses[c].present /\ courses[d].present
          /\ NumScored(c) = 0 /\ Len(reviews[c]) > 0
          /\ NumScored(d) = 2
          /\ metrics[c].smoothed_sentiment # Zero

\* C21: in every state, every stored course has a defined
\* smoothed_sentiment, also between its ingestion and the next run of
\* AggregateCourseMetrics, and without a scored review the value is the mean
\* of all scored reviews of the store.
C21_SmoothedAlwaysDefined ==
    \A c \in CourseIds : courses[c].present =>
        /\ metrics[c].set
        /\ NumScored(c) = 0 => metrics[c].smoothed_sentiment = MeanOfAll

\* the first half alone: the field exists on every stored course
C21_SmoothedFieldPresent ==
    \A c \in CourseIds : courses[c].present => metrics[c].set

\* C25: once a review has a sentiment score, no step of the pipeline
\* (ingestion upsert of its course, ScoreNewReviews, AggregateCourseMetrics)
\* removes the review, removes its score or changes its score.
C25_ScoredReviewImmutable ==
    [][\A c \in CourseIds : \A i \in DOMAIN reviews[c] :
          reviews[c][i].scored
              => /\ i \in DOMAIN reviews'[c]
                 /\ reviews'[c][i] = reviews[c][i]]_vars

\* the steps other than the ingestion upsert keep every scored review
C25_EnrichmentKeepsScores ==
    [][last'.op # "upsert_course"
          => \A c \in CourseIds : \A i \in DOMAIN reviews[c] :
                reviews[c][i].scored
                    => /\ i \in DOMAIN reviews'[c]
                       /\ reviews'[c][i] = reviews[c][i]]_vars

\* C13: after AggregateCourseMetrics the smoothed_sentiment of every stored
\* course lies between its avg_sentiment and the global mean, inclusive.
C13_SmoothedBetweenAvgAndMean ==
    last.op = "aggregate_course_metrics" =>
        \A c \in CourseIds : courses[c].present =>
            LET avg    == metrics[c].avg_sentiment
                smooth == metrics[c].smoothed_sentiment
            IN  /\ fle(avg, smooth) \/ fle(MeanOfAll, smooth)
                /\ fle(smooth, avg) \/ fle(smooth, MeanOfAll)

\* C14: ScoreNewReviews gives every review without a score the polarity of
\* its text and leaves every scored review as it is; a run that directly
\* follows a run writes nothing.
C14_ScoresOnlyMissing ==
    [][last'.op = "score_new_reviews"
          => /\ \A c \in CourseIds : courses[c].present =>
                   /\ DOMAIN reviews'[c] = DOMAIN reviews[c]
                   /\ \A i \in DOMAIN reviews[c] :
                         IF reviews[c][i].scored
                         THEN reviews'[c][i] = reviews[c][i]
                         ELSE /\ reviews'[c][i].scored
                              /\ reviews'[c][i].sentiment_score
                                     = Polarity(reviews[c][i].text)
                              /\ reviews'[c][i].text = reviews[c][i].text
             /\ last'.hit = (\E c \in CourseIds :
                                /\ courses[c].present
                                /\ DOMAIN reviews[c] # ScoredIn(c))
             /\ last.op = "score_new_reviews"
                   => ~last'.hit /\ reviews' = reviews]_vars

\* C14 witness: a second scoring run in a row has run over scored reviews.
C14_Witness ==
    /\ last.op = "score_new_reviews" /\ last.again /\ ~last.hit
    /\ \E c \in CourseIds : courses[c].present /\ NumScored(c) = 2

(***************************************************************************)
(* Flags of the demand tracker.                                            *)
(***************************************************************************)
\* C15: no step changes the notified flag of a search request, the sent flag
\* of a notification or the scraped flag of a keyword queue entry from true
\* to false; enqueue of a scraped keyword leaves it scraped.
C15_FlagsNeverRevert ==
    [][/\ \A i \in DOMAIN search_requests :
             search_requests[i].notified
                 => /\ i \in DOMAIN search_requests'
                    /\ search_requests'[i].notified
       /\ \A i \in DOMAIN keyword_queue :
             keyword_queue[i].scraped
                 => /\ i \in DOMAIN keyword_queue'
                    /\ keyword_queue'[i].keyword = keyword_queue[i].keyword
                    /\ keyword_queue'[i].scraped
       /\ \A u \in UserIds : \A j \in DOMAIN users[u].notifications :
             (users[u].notifications[j].sent /\ users'[u].present)
                 => /\ j \in DOMAIN users'[u].notifications
                    /\ users'[u].notifications[j].sent]_vars

\* C15 witness: a zero-result Search has just enqueued a keyword that was
\* already scraped, while a notified request and a sent notification exist.
C15_Witness ==
    /\ deployment = "app"
    /\ last.op = "search_courses" /\ last.hit
    /\ \E i \in DOMAIN keyword_queue :
          keyword_queue[i].keyword = last.name /\ keyword_queue[i].scraped
    /\ \E i \in DOMAIN search_requests : search_requests[i].notified
    /\ \E u \in UserIds : \E j \in DOMAIN users[u].notifications :
          users[u].notifications[j].sent

\* C16: a Notification is sent = true only after a successful hand-off of it
\* to the delivery channel; one whose hand-off failed stays sent = false for
\* the next pass.
C16_SentOnlyAfterHandOff ==
    \A u \in UserIds : \A j \in DOMAIN users[u].notifications :
        users[u].notifications[j].sent => users[u].notifications[j].handed

\* C17: after a Search that found no candidate, with or without a user, the
\* keyword queue holds an entry for the query text.
C17_ZeroResultSearchEnqueues ==
    (last.op = "search_courses" /\ last.hit)
        => \E i \in DOMAIN keyword_queue : keyword_queue[i].keyword = last.name

\* C17, packaged layout only: its search_courses calls enqueue first.
C17_PackagedSearchEnqueues ==
    deployment = "app" => C17_ZeroResultSearchEnqueues


(***************************************************************************)
(* The batch jobs and what starts them.  A run of the ingestion pipeline   *)
(* goes through scrape, ingest, retag, notify and aggregate; a run of      *)
(* retag_all on its own is the retag step alone.                           *)
(***************************************************************************)
MaxRuns == 3

StartupDefaults == <<"k1">>

Count(cs) == Cardinality({c \in CourseIds : cs[c].present})

\* the app has finished its startup hook and serves requests
Serving == jobs.booted /\ jobs.pc[<<"startup_retag", 0>>] = "idle"

Start(j, pc) ==
    [jobs EXCEPT !.pc[j] = pc, !.runs = @ + 1]

\* where a job goes after a step
Goto(j, pc) == [jobs EXCEPT !.pc[j] = pc]

\* @app.on_event("startup")
startup_event ==
    /\ ~jobs.booted
    /\ keyword_queue' = IF deployment = "app"
                        THEN SeedAll(keyword_queue, StartupDefaults)
                        ELSE keyword_queue
    /\ jobs' = [jobs EXCEPT
                   !.booted = TRUE,
                   !.runs = @ + 1,
                   !.pc = [@ EXCEPT
                              ![<<"startup_thread", 0>>] =
                                  IF deployment = "app" THEN "scrape" ELSE "idle",
                              ![<<"startup_retag", 0>>] = "retag"]]
    /\ UNCHANGED <<deployment, courses, tagVars, users, search_requests,
                   threadVars, rankVars, sentVars, taggers, index, last>>

\* GET /courses/search with no result: the request thread records the demand
\* and starts a thread on run_ingestion_pipeline
search_spawn(t, u, k) ==
    /\ deployment = "app"
    /\ Serving
    /\ jobs.runs < MaxRuns
    /\ jobs.pc[<<"search_thread", t>>] = "idle"
    /\ u # None => users[u].present
    /\ QueryDocs(courses, {k}) = <<>>
    /\ keyword_queue' = enqueue(keyword_queue, k)
    /\ search_requests' = IF u # None THEN add_request(search_requests, u, k)
                          ELSE search_requests
    /\ Len(search_requests') <= MaxReqs
    /\ jobs' = Start(<<"search_thread", t>>, "scrape")
    /\ UNCHANGED <<deployment, courses, tagVars, users, threadVars, rankVars,
                   sentVars, taggers, index, last>>

\* the scheduler process fires ingest_job; max_instances=1 keeps it from
\* starting the job while its own previous run is in progress
ingest_job ==
    /\ jobs.runs < MaxRuns
    /\ jobs.pc[<<"ingest_job", 0>>] = "idle"
    /\ jobs' = Start(<<"ingest_job", 0>>, "scrape")
    /\ UNCHANGED <<deployment, courses, tagVars, demandVars, threadVars,
                   rankVars, sentVars, taggers, index, last>>

\* POST /admin/tasks/ingest: the pipeline runs in the request's thread
trigger_ingest ==
    /\ deployment = "app"
    /\ Serving
    /\ jobs.runs < MaxRuns
    /\ jobs.pc[<<"trigger_ingest", 0>>] = "idle"
    /\ jobs' = Start(<<"trigger_ingest", 0>>, "scrape")
    /\ UNCHANGED <<deployment, courses, tagVars, demandVars, threadVars,
                   rankVars, sentVars, taggers, index, last>>

\* watch_changes of the packaged layout: one poll of the course count
watch_poll ==
    /\ deployment = "app"
    /\ Serving
    /\ jobs.pc[<<"watch_changes", 0>>] = "idle"
    /\ Count(courses) > jobs.last_count
    /\ jobs' = [jobs EXCEPT !.pc[<<"watch_changes", 0>>] = "retag",
                            !.last_count = Count(courses)]
    /\ UNCHANGED <<deployment, courses, tagVars, demandVars, threadVars,
                   rankVars, sentVars, taggers, index, last>>

\* run_scrapers_for_pending / step_scrapers of one run; the packaged pipeline
\* stops here when nothing was pending
job_scrape(j) ==
    /\ jobs.pc[j] = "scrape"
    /\ LET pending == get_pending_keywords(keyword_queue)
       IN  /\ keyword_queue' = ScrapeAll(keyword_queue, pending)
           /\ jobs' = Goto(j, IF deployment = "app" /\ pending = <<>>
                              THEN "idle" ELSE "ingest")
    /\ UNCHANGED <<deployment, courses, tagVars, users, search_requests,
                   threadVars, rankVars, sentVars, taggers, index, last>>

\* unify_and_ingest / step_ingest of one run: the scrapers brought nothing
\* new, or one course that is upserted
job_ingest(j) ==
    /\ jobs.pc[j] = "ingest"
    /\ \/ courses' = courses
       \/ \E c \in CourseIds, text \in ScrapedTexts :
             /\ ~courses[c].present
             /\ \A d \in CourseIds : d < c => courses[d].present
             /\ courses' = [courses EXCEPT ![c] =
                               [present |-> TRUE, text |-> text, categories |-> {}]]
    /\ jobs' = Goto(j, "retag")
    /\ UNCHANGED <<deployment, tagVars, demandVars, threadVars, rankVars,
                   sentVars, taggers, index, last>>

\* category_tagger.retag_all() of one run; the startup hook starts the
\* watcher, which reads the course count, once its retag_all has returned
job_retag(j) ==
    /\ jobs.pc[j] = "retag"
    /\ courses' = RetagFrom(courses, categories, 1)
    /\ jobs' = IF j \in PipelineJobs THEN Goto(j, "notify")
               ELSE IF j = <<"startup_retag", 0>>
               THEN [Goto(j, "idle") EXCEPT !.last_count = Count(courses)]
               ELSE Goto(j, "idle")
    /\ UNCHANGED <<deployment, tagVars, demandVars, threadVars, rankVars,
                   sentVars, taggers, index, last>>

\* notification_service.process_search_requests() of one run, followed in the
\* root layout by dispatch_notifications(), which ends the run
job_notify(j) ==
    /\ jobs.pc[j] = "notify"
    /\ LET st == ProcessAll([users |-> users, reqs |-> search_requests],
                            courses, get_pending(search_requests))
       IN  /\ search_requests' = st.reqs
           /\ IF deployment = "app" THEN users' = st.users
              ELSE \E failing \in SUBSET UserIds :
                       users' = DispatchAll(st.users, failing)
    /\ jobs' = Goto(j, IF deployment = "app" THEN "aggregate" ELSE "idle")
    /\ UNCHANGED <<deployment, courses, tagVars, keyword_queue, threadVars,
                   rankVars, sentVars, taggers, index, last>>

\* sentiment.aggregate_course_metrics() of one run of the packaged pipeline
job_aggregate(j) ==
    /\ jobs.pc[j] = "aggregate"
    /\ LET global_mean == GlobalMean(AllScoresFrom(courses, reviews, 1))
       IN  metrics' = [c \in CourseIds |->
                          IF courses[c].present
                          THEN CourseMetrics(ScoresOf(reviews[c]), global_mean)
                          ELSE metrics[c]]
    /\ jobs' = Goto(j, "idle")
    /\ UNCHANGED <<deployment, courses, tagVars, demandVars, threadVars,
                   rankVars, reviews, taggers, index, last>>

(***************************************************************************)
(* SpecJobs: the server's threads and the scheduler process, interleaved.  *)
(***************************************************************************)
InitJobs == InitDemand

NextJobs ==
    \/ startup_event
    \/ \E t \in SearchThreads, u \in UserIds \cup {None}, k \in Terms :
           search_spawn(t, u, k)
    \/ ingest_job
    \/ trigger_ingest
    \/ watch_poll
    \/ \E j \in PipelineJobs : job_scrape(j)
    \/ \E j \in PipelineJobs : job_ingest(j)
    \/ \E j \in JobIds : job_retag(j)
    \/ \E j \in PipelineJobs : job_notify(j)
    \/ \E j \in PipelineJobs : job_aggregate(j)

SpecJobs == InitJobs /\ [][NextJobs]_vars

\* the runs of the ingestion pipeline in progress
PipelinesRunning == {j \in PipelineJobs : jobs.pc[j] # "idle"}

\* the runs of retag_all in progress, inside a pipeline or on their own
RetagsRunning == {j \in JobIds : jobs.pc[j] = "retag"}

\* C18: at any time at most one run of the ingestion pipeline and at most one
\* run of retag_all is in progress, whatever started them (scheduler job,
\* startup thread, startup retag, the thread of a zero-result Search, the
\* course-count watcher, the admin endpoint).
C18_OneRunOfEachBatchJob ==
    /\ Cardinality(PipelinesRunning) <= 1
    /\ Cardinality(RetagsRunning) <= 1

\* the narrower statement about retag_all alone
C18_OneRetagAll == Cardinality(RetagsRunning) <= 1



(***************************************************************************)
(* RetagAll when the index query of one category raises.  Neither layout   *)
(* has a try/except in the loop of retag_all: the exception leaves the     *)
(* loop, and the function, at the category whose query failed.             *)
(***************************************************************************)
\* the loop of retag_all when courses.find raises for category `bad`: the
\* root layout has already cleared the category's name, the packaged layout
\* has written nothing for it
RECURSIVE RetagFromFailing(_, _, _, _)
RetagFromFailing(cs, cats, id, bad) ==
    IF id > NumCats THEN cs
    ELSE IF ~cats[id].present THEN RetagFromFailing(cs, cats, id + 1, bad)
    ELSE IF id = bad /\ cats[id].keywords # {}
    THEN (IF deployment = "utils" THEN PullCategory(cs, cats[id].name) ELSE cs)
    ELSE RetagFromFailing(IF deployment = "utils"
                          THEN RetagCategoryWalk(cs, cats[id])
                          ELSE RetagCategoryFilter(cs, cats[id]),
                          cats, id + 1, bad)

\* a run of retag_all during which the query for category `bad` raises
retag_all_failing(bad) ==
    /\ categories[bad].present
    /\ categories[bad].keywords # {}
    /\ courses' = RetagFromFailing(courses, categories, 1, bad)
    /\ last' = Did("retag_all_failing", categories[bad].name, FALSE)
    /\ UNCHANGED <<deployment, categories, changes, demandVars, threadVars,
                   rankVars, sentVars, otherVars>>

(***************************************************************************)
(* SpecFault: the category tagger with index queries that can fail.        *)
(***************************************************************************)
InitFault == InitTag

NextFault ==
    \/ \E id \in CatIds, name \in Names, kws \in SUBSET Terms :
           create_category(id, name, kws)
    \/ \E id \in CatIds, name \in Names, kws \in SUBSET Terms :
           update_category(id, name, kws)
    \/ \E id \in CatIds : delete_category(id)
    \/ retag_all
    \/ watch_changes
    \/ \E bad \in CatIds : retag_all_failing(bad)

SpecFault == InitFault /\ [][NextFault]_vars

\* C19: a run of RetagAll in which the index query fails for one category
\* still re-tags every other category: for each of them the courses carrying
\* its name afterwards are those a run without the failure would have left.
C19_FailureSkipsOneCategory ==
    [][last'.op = "retag_all_failing"
          => \A id \in CatIds :
                (categories[id].present /\ categories[id].name # last'.name)
                    => Tagged(courses', categories[id].name)
                         = Tagged(RetagFrom(courses, categories, 1),
                                  categories[id].name)]_vars

\* the categories stored before the one whose query failed are re-tagged
C19_EarlierCategoriesRetagged ==
    [][last'.op = "retag_all_failing"
          => \A id \in CatIds :
                (/\ categories[id].present
                 /\ categories[id].name # last'.name
                 /\ \E bad \in CatIds : /\ id < bad
                                        /\ categories[bad].name = last'.name
                                        /\ categories[bad].keywords # {})
                    => Tagged(courses', categories[id].name)
                         = Tagged(RetagFrom(courses, categories, 1),
                                  categories[id].name)]_vars



(***************************************************************************)
(* SpecQueue: the calls that write the keyword queue, in any order.  The   *)
(* root layout's app and scraper step use src/keyword_queue.py, whose      *)
(* seed_defaults inserts with insert_many.                                 *)
(***************************************************************************)
\* to_insert = [... for kw in defaults if kw not in existing]; insert_many
RECURSIVE SeedMany(_, _, _)
SeedMany(q, existing, defaults) ==
    IF defaults = <<>> THEN q
    ELSE SeedMany(IF Head(defaults) \in existing THEN q
                  ELSE Append(q, [keyword |-> Head(defaults), scraped |-> FALSE]),
                  existing, Tail(defaults))

\* seed_defaults(defaults) of src/keyword_queue.py
seed_defaults_insert_many(defaults) ==
    /\ deployment = "utils"
    /\ keyword_queue' = SeedMany(keyword_queue,
                                 {keyword_queue[i].keyword : i \in DOMAIN keyword_queue},
                                 defaults)
    /\ last' = Did("seed_defaults", "", FALSE)
    /\ UNCHANGED <<deployment, courses, tagVars, users, search_requests,
                   threadVars, rankVars, sentVars, otherVars>>

\* keyword_queue.enqueue(k), called on its own
enqueue_keyword(k) ==
    /\ keyword_queue' = enqueue(keyword_queue, k)
    /\ last' = Did("enqueue", k, FALSE)
    /\ UNCHANGED <<deployment, courses, tagVars, users, search_requests,
                   threadVars, rankVars, sentVars, otherVars>>

\* keyword_queue.mark_scraped(k), called on its own
mark_keyword_scraped(k) ==
    /\ keyword_queue' = mark_scraped(keyword_queue, k)
    /\ last' = Did("mark_scraped", k, FALSE)
    /\ UNCHANGED <<deployment, courses, tagVars, users, search_requests,
                   threadVars, rankVars, sentVars, otherVars>>

NextQueue ==
    \/ \E len \in 1..2 : \E defaults \in [1..len -> Terms] : seed_defaults(defaults)
    \/ \E len \in 1..2 : \E defaults \in [1..len -> Terms] :
           seed_defaults_insert_many(defaults)
    \/ \E k \in Terms : enqueue_keyword(k)
    \/ \E k \in Terms : mark_keyword_scraped(k)

SpecQueue == InitDemand /\ [][NextQueue]_vars

\* C26: after any sequence of seed_defaults, enqueue and mark_scraped calls
\* (also with a defaults list that repeats a keyword), the keyword queue
\* holds at most one entry per keyword text.
C26_OneEntryPerKeyword ==
    \A i, j \in DOMAIN keyword_queue :
        keyword_queue[i].keyword = keyword_queue[j].keyword => i = j

\* the same for the upserting seed_defaults of src/utils and src/app
C26_UpsertKeepsKeywordsUnique ==
    (deployment = "app") => C26_OneEntryPerKeyword

(***************************************************************************)
(* SpecLive: the demand tracker with the notification passes run again and *)
(* again (watch_notifications loops for ever over process_search_requests  *)
(* and dispatch_notifications; the pipeline and the scheduler run them     *)
(* too).  The searches are those of logged-in users.                       *)
(***************************************************************************)
InitLive == InitDemand

NextLive ==
    \/ \E c \in CourseIds, text \in ScrapedTexts : step_ingest(c, text)
    \/ \E u \in UserIds, k \in Terms : search_courses(u, k)
    \/ process_search_requests
    \/ \E failing \in SUBSET UserIds : dispatch_notifications(failing)
    \/ \E u \in UserIds : delete_user(u)

SpecLive ==
    /\ InitLive
    /\ [][NextLive]_vars
    /\ WF_vars(process_search_requests)
    /\ WF_vars(\E failing \in SUBSET UserIds : dispatch_notifications(failing))

\* user u has an un-notified search request for keyword k
Waiting(u, k) ==
    \E i \in DOMAIN search_requests :
        /\ search_requests[i].user_id = u
        /\ search_requests[i].keyword = k
        /\ ~search_requests[i].notified

\* every search request of user u for keyword k is notified, there is one,
\* and u holds a sent notification for k
Served(u, k) ==
    /\ ~Waiting(u, k)
    /\ \E i \in DOMAIN search_requests :
           /\ search_requests[i].user_id = u
           /\ search_requests[i].keyword = k
    /\ \E j \in DOMAIN users[u].notifications :
           /\ users[u].notifications[j].keyword = k
           /\ users[u].notifications[j].sent

\* C20: if user U has an un-notified search request for keyword K (left by a
\* zero-result Search) and a course matches K, then, the passes of
\* process_search_requests and dispatch_notifications being run again and
\* again, eventually the request is notified and U's list holds a
\* notification for K with sent = true, unless U is deleted.
C20_DemandEventuallyServed ==
    \A u \in UserIds, k \in Terms :
        (Waiting(u, k) /\ Matching(courses, {k}) # {})
            ~> (Served(u, k) \/ ~users[u].present)

\* C20 witness: a dispatch pass has just run, and a stored user holds the
\* sent notification created for their notified search request.
C20_Witness ==
    /\ last.op = "dispatch_notifications"
    /\ \E i \in DOMAIN search_requests :
          /\ search_requests[i].notified
          /\ users[search_requests[i].user_id].present
          /\ Matching(courses, {search_requests[i].keyword}) # {}
          /\ \E j \in DOMAIN users[search_requests[i].user_id].notifications :
                LET note == users[search_requests[i].user_id].notifications[j]
                IN  note.for = i /\ note.sent



(***************************************************************************)
(* Re-tags of one category that overlap (root layout): the change-stream   *)
(* watcher and retag_all, or two runs of retag_all, each going through the *)
(* same steps for the category: $pull of the name from every course, the   *)
(* text query, then one $addToSet per document of the walk.                *)
(***************************************************************************)
\* the $pull of update_many as it reaches course c
PullOne(cs, c, name) ==
    [cs EXCEPT ![c].categories = @ \ {name}]

\* a re-tag of category id begins
retag_begin(t, id) ==
    /\ taggers[t].pc = "idle"
    /\ categories[id].present
    /\ taggers' = [taggers EXCEPT ![t] = [IdleTagger EXCEPT !.pc = "pull", !.cat = id]]
    /\ UNCHANGED <<deployment, courses, tagVars, demandVars, threadVars, rankVars,
                   sentVars, jobs, index, last>>

\* courses.update_many({}, {"$pull": {"categories": name}}), one document
retag_pull(t) ==
    /\ taggers[t].pc = "pull"
    /\ LET c    == taggers[t].next
           name == categories[taggers[t].cat].name
           kws  == categories[taggers[t].cat].keywords
           undo == /\ name \in courses[c].categories
                   /\ \E o \in TaggerIds \ {t} : c \in taggers[o].added
       IN  /\ courses' = PullOne(courses, c, name)
           /\ taggers' = [taggers EXCEPT ![t] =
                  [@ EXCEPT !.next = c + 1,
                            !.undid = @ \/ undo,
                            !.pc = IF c < NumCourses THEN "pull"
                                   ELSE IF kws = {} THEN "done" ELSE "find"]]
    /\ UNCHANGED <<deployment, tagVars, demandVars, threadVars, rankVars,
                   sentVars, jobs, index, last>>

\* docs = list(courses.find({"$text": ...}).sort(...)); max_score = docs[0]["score"]
retag_find(t) ==
    /\ taggers[t].pc = "find"
    /\ LET kws  == categories[taggers[t].cat].keywords
           docs == QueryDocs(courses, kws)
       IN  taggers' = [taggers EXCEPT ![t] =
               IF docs = <<>> THEN [@ EXCEPT !.pc = "done"]
               ELSE [@ EXCEPT !.pc = "add", !.docs = docs,
                              !.max_score = TextScore(courses, docs[1], kws)]]
    /\ UNCHANGED <<deployment, courses, tagVars, demandVars, threadVars, rankVars,
                   sentVars, jobs, index, last>>

\* one turn of `for d in docs: if d["score"] < thresh: break; update_one(...)`
retag_add(t) ==
    /\ taggers[t].pc = "add"
    /\ LET cat  == categories[taggers[t].cat]
           docs == taggers[t].docs
       IN  IF \/ docs = <<>>
              \/ BelowThreshold(TextScore(courses, Head(docs), cat.keywords),
                                taggers[t].max_score)
           THEN /\ taggers' = [taggers EXCEPT ![t].pc = "done", ![t].docs = <<>>]
                /\ courses' = courses
           ELSE /\ courses' = AddToSet(courses, {Head(docs)}, cat.name)
                /\ taggers' = [taggers EXCEPT ![t].docs = Tail(docs),
                                              ![t].added = @ \cup {Head(docs)}]
    /\ UNCHANGED <<deployment, tagVars, demandVars, threadVars, rankVars,
                   sentVars, jobs, index, last>>

(***************************************************************************)
(* SpecOverlap: one category, its keywords and the index contents fixed,   *)
(* and the re-tags of it interleaved.  A re-tag that has begun runs on.    *)
(***************************************************************************)
InitOverlap ==
    /\ deployment = "utils"
    /\ courses \in [CourseIds -> [present : {TRUE}, text : [Terms -> Weights],
                                  categories : SUBSET {"n1"}]]
    /\ \A c, d \in CourseIds : c < d => TextKey(courses[c]) >= TextKey(courses[d])
    /\ \E kws \in SUBSET Terms :
          categories = [id \in CatIds |->
                           IF id = 1
                           THEN [present |-> TRUE, name |-> "n1", keywords |-> kws]
                           ELSE NoCategory]
    /\ changes = <<>>
    /\ NoDemand
    /\ NoThreads
    /\ NoJobs
    /\ NoTaggers
    /\ NoIndexing
    /\ NoRanking
    /\ NoSentiment
    /\ last = NoOp

TaggerStep(t) ==
    \/ retag_begin(t, 1)
    \/ retag_pull(t)
    \/ retag_find(t)
    \/ retag_add(t)

NextOverlap == \E t \in TaggerIds : TaggerStep(t)

SpecOverlap ==
    /\ InitOverlap
    /\ [][NextOverlap]_vars
    /\ \A t \in TaggerIds : WF_vars(TaggerStep(t))

AllDone == \A t \in TaggerIds : taggers[t].pc = "done"

\* a course at or above the threshold for category 1 that lacks its name
Untagged ==
    ThresholdSet(categories[1].keywords) \ Tagged(courses, categories[1].name)

\* C22 as the spec words it: the overlapping re-tags of a category end with
\* some course at or above the threshold not carrying the category's name.
C22_OverlapLeavesPartialTags == <>(AllDone /\ Untagged # {})

\* C22 as the code behaves: whatever the interleaving of the clear and add
\* steps of the overlapping re-tags of a category (same keywords, same index
\* contents), once all of them have finished the courses carrying the name are
\* exactly those at or above the threshold; a course at or above the
\* threshold lacks the name only while a re-tag is still in progress.
C22_OverlapEndsWithThresholdSet ==
    AllDone => Tagged(courses, categories[1].name)
                  = ThresholdSet(categories[1].keywords)

\* C22 witness: all re-tags have finished, one of them cleared a tag that
\* another had already added, and some course is at or above the threshold.
C22_Witness ==
    /\ AllDone
    /\ \E t \in TaggerIds : taggers[t].undid
    /\ ThresholdSet(categories[1].keywords) # {}


(***************************************************************************)
(* The text index of the courses collection.  ensure_text_index drops the  *)
(* text indexes that are not the canonical one, rebuild_text_index drops   *)
(* every text index, and both then create the canonical one.  A collection *)
(* has at most one text index.                                             *)
(***************************************************************************)
OtherIndexes == {"title_text"}

\* for idx in coll.list_indexes(): the text indexes function j will drop
index_list(j) ==
    /\ index.pc[j] = "idle"
    /\ index' = [index EXCEPT
                    !.pc[j] = "drop",
                    !.todo[j] = IF j = "rebuild_text_index" THEN index.names
                                ELSE index.names \ {TEXT_INDEX}]
    /\ last' = Did(j, "", FALSE)
    /\ UNCHANGED <<deployment, courses, tagVars, demandVars, threadVars, rankVars,
                   sentVars, jobs, taggers>>

\* coll.drop_index(idx["name"]) for each listed index, then on to create_index;
\* dropping an index that is gone raises, which only the root layout's
\* ensure_text_index catches
index_drop(j) ==
    /\ index.pc[j] = "drop"
    /\ IF index.todo[j] = {}
       THEN index' = [index EXCEPT !.pc[j] = "create"]
       ELSE \E name \in index.todo[j] :
               IF name \in index.names
               THEN index' = [index EXCEPT !.names = @ \ {name},
                                           !.todo[j] = @ \ {name}]
               ELSE IF j = "ensure_text_index" /\ deployment = "utils"
               THEN index' = [index EXCEPT !.todo[j] = @ \ {name}]
               ELSE index' = [index EXCEPT !.todo[j] = {}, !.pc[j] = "idle"]
    /\ last' = Did(j, "", FALSE)
    /\ UNCHANGED <<deployment, courses, tagVars, demandVars, threadVars, rankVars,
                   sentVars, jobs, taggers>>

\* coll.create_index([...], name=TEXT_INDEX): raises and creates nothing when
\* a text index of another name exists
index_create(j) ==
    /\ index.pc[j] = "create"
    /\ index' = [index EXCEPT
                    !.pc[j] = "idle",
                    !.names = IF @ = {} THEN {TEXT_INDEX} ELSE @]
    /\ last' = Did(j, "", FALSE)
    /\ UNCHANGED <<deployment, courses, tagVars, demandVars, threadVars, rankVars,
                   sentVars, jobs, taggers>>

\* a $text query by Search, the tagger or process_search_requests: it finds
\* an index to run against, or the server refuses it
text_query(by) ==
    /\ last' = Did(by, "", index.names # {})
    /\ UNCHANGED <<deployment, courses, tagVars, demandVars, threadVars, rankVars,
                   sentVars, otherVars>>

(***************************************************************************)
(* SpecIndex: index maintenance interleaved with queries.                  *)
(***************************************************************************)
InitIndex ==
    /\ deployment \in {"utils", "app"}
    /\ courses = [c \in CourseIds |-> NoCourse]
    /\ categories = [id \in CatIds |-> NoCategory]
    /\ changes = <<>>
    /\ NoDemand
    /\ NoThreads
    /\ NoJobs
    /\ NoTaggers
    /\ NoRanking
    /\ NoSentiment
    /\ last = NoOp
    /\ \E names \in {{TEXT_INDEX}, {}} \cup {{n} : n \in OtherIndexes} :
          index = [names |-> names, pc |-> [j \in IndexJobs |-> "idle"],
                   todo |-> [j \in IndexJobs |-> {}]]

NextIndex ==
    \/ \E j \in IndexJobs : index_list(j)
    \/ \E j \in IndexJobs : index_drop(j)
    \/ \E j \in IndexJobs : index_create(j)
    \/ \E by \in {"search_courses", "retag_all", "process_search_requests"} :
           text_query(by)

SpecIndex == InitIndex /\ [][NextIndex]_vars

\* C23: while the canonical text index exists, no step of EnsureIndex or of
\* the enrichment pipeline's index rebuild leaves the collection without a
\* text index, so a query interleaved at any point finds one.
C23_IndexNeverMissing ==
    [][(TEXT_INDEX \in index.names) => (index'.names # {})]_vars

\* the steps of ensure_text_index alone never drop the canonical index
C23_EnsureKeepsCanonical ==
    [][(TEXT_INDEX \in index.names /\ last'.op = "ensure_text_index")
          => (TEXT_INDEX \in index'.names)]_vars



(***************************************************************************)
(* The ingestion pipeline as one run, with scrapers that can fail.         *)
(***************************************************************************)
\* a loop that marks the keyword at position f as well, before its scrape
\* has succeeded
ScrapeThrough(q, pending, f) ==
    ScrapeAll(q, SubSeq(pending, 1, IF f < Len(pending) THEN f ELSE Len(pending)))

\* `for kw in pending: scrape(kw); mark_scraped(kw)` when the scrape of the
\* keyword at position f fails (f beyond the list: none fails)
ScrapeUntil(q, pending, f) ==
    ScrapeAll(q, SubSeq(pending, 1, IF f <= Len(pending) THEN f - 1 ELSE Len(pending)))

\* what the store holds after unify and ingest: nothing new, or one new course
Ingestable(cs) ==
    {cs} \cup {[cs EXCEPT ![c] = [present |-> TRUE, text |-> text, categories |-> {}]] :
                  c \in {d \in CourseIds : /\ ~cs[d].present
                                           /\ \A e \in CourseIds : e < d => cs[e].present},
                  text \in ScrapedTexts}

\* one run of run_ingestion_pipeline; fails = 0 when every scraper succeeds,
\* otherwise the position in the pending list of the keyword whose scraper
\* fails (root layout: run_step returns False; packaged: the call raises)
run_ingestion_pipeline(fails) ==
    LET pending == get_pending_keywords(keyword_queue)
    IN  /\ fails \in 0..Len(pending)
        /\ keyword_queue' = ScrapeUntil(keyword_queue, pending,
                                        IF fails = 0 THEN Len(pending) + 1 ELSE fails)
        /\ IF fails > 0
           THEN /\ last' = Did("scraper_failed", pending[fails], FALSE)
                /\ UNCHANGED <<courses, users, search_requests, metrics>>
           ELSE IF deployment = "app" /\ pending = <<>>
           THEN /\ last' = Did("run_ingestion_pipeline", "", FALSE)
                /\ UNCHANGED <<courses, users, search_requests, metrics>>
           ELSE \E ingested \in Ingestable(courses), failing \in SUBSET UserIds :
                   LET tagged == RetagFrom(ingested, categories, 1)
                       st == ProcessAll([users |-> users, reqs |-> search_requests],
                                        tagged, get_pending(search_requests))
                       global_mean == GlobalMean(AllScoresFrom(tagged, reviews, 1))
                   IN  /\ courses' = tagged
                       /\ search_requests' = st.reqs
                       /\ users' = IF deployment = "app" THEN st.users
                                   ELSE DispatchAll(st.users, failing)
                       /\ metrics' = IF deployment = "app"
                                     THEN [c \in CourseIds |->
                                              IF tagged[c].present
                                              THEN CourseMetrics(ScoresOf(reviews[c]),
                                                                 global_mean)
                                              ELSE metrics[c]]
                                     ELSE metrics
                       /\ last' = Did("run_ingestion_pipeline", "", TRUE)
        /\ UNCHANGED <<deployment, tagVars, threadVars, rankVars, reviews, otherVars>>

(***************************************************************************)
(* SpecScrape: searches, seeding and pipeline runs, one at a time.         *)
(***************************************************************************)
NextScrape ==
    \/ \E len \in 1..2 : \E defaults \in [1..len -> Terms] : seed_defaults(defaults)
    \/ \E u \in UserIds, k \in Terms : search_courses(u, k)
    \/ \E fails \in 0..2 : run_ingestion_pipeline(fails)

SpecScrape == InitDemand /\ [][NextScrape]_vars

\* C27: a pipeline run in which the scraper fails for keyword K leaves K
\* pending (scraped = false, returned by get_pending_keywords to the next
\* run), marks nothing but keywords whose scraping had finished, and executes
\* neither ingest nor RetagAll nor ProcessSearchRequests.
C27_FailedScrapeStopsRun ==
    [][last'.op = "scraper_failed"
          => /\ \E i \in DOMAIN keyword_queue' :
                   /\ keyword_queue'[i].keyword = last'.name
                   /\ ~keyword_queue'[i].scraped
             /\ \A i \in DOMAIN keyword_queue :
                   keyword_queue[i].keyword = last'.name
                       => keyword_queue'[i] = keyword_queue[i]
             /\ UNCHANGED <<courses, users, search_requests, metrics>>]_vars

\* C27 witness: a run has just stopped at a failing scraper after marking an
\* earlier keyword, the failed keyword is still pending, and a search request
\* is waiting.
C27_Witness ==
    /\ last.op = "scraper_failed"
    /\ \E i, j \in DOMAIN keyword_queue :
          /\ i < j
          /\ keyword_queue[i].scraped
          /\ ~keyword_queue[j].scraped
          /\ keyword_queue[j].keyword = last.name
    /\ \E r \in DOMAIN search_requests : ~search_requests[r].notified



(***************************************************************************)
(* SpecFilter: the packaged Search with its category filter, followed by   *)
(* notification passes.                                                    *)
(***************************************************************************)
\* "" stands for a Search without the optional category parameter
NoFilter == ""

\* find(filter_query): the $text match, narrowed by filter_query["categories"]
\* when the category parameter was given
FilteredDocs(cs, k, category) ==
    {c \in Matching(cs, {k}) : category # NoFilter => category \in cs[c].categories}

\* GET /courses/search of the packaged layout with its category parameter,
\* as far as it writes: the zero-result branch
search_courses_filtered(u, k, category) ==
    /\ deployment = "app"
    /\ u # None => users[u].present
    /\ LET zero == FilteredDocs(courses, k, category) = {}
       IN  /\ keyword_queue' = IF zero THEN enqueue(keyword_queue, k)
                               ELSE keyword_queue
           /\ search_requests' = IF zero /\ u # None
                                 THEN add_request(search_requests, u, k)
                                 ELSE search_requests
           /\ last' = [op |-> "search_courses", name |-> k, hit |-> zero,
                       again |-> (/\ last.op = "search_courses" /\ last.hit
                                  /\ last.name = k /\ last.user = u),
                       user |-> u, top_k |-> 0]
    /\ Len(search_requests') <= MaxReqs
    /\ UNCHANGED <<deployment, courses, tagVars, users, threadVars, rankVars, sentVars, otherVars>>

\* the stored courses at start: some already ingested, some of them tagged
InitFilter ==
    /\ deployment = "app"
    /\ courses \in [CourseIds -> {NoCourse} \cup
                       {[present |-> TRUE, text |-> t, categories |-> cats] :
                            t \in ScrapedTexts, cats \in SUBSET {"n1"}}]
    /\ \A c, d \in CourseIds : (d < c /\ courses[c].present) => courses[d].present
    /\ categories = [id \in CatIds |-> NoCategory]
    /\ changes = <<>>
    /\ NoDemand
    /\ NoThreads
    /\ NoJobs
    /\ NoTaggers
    /\ NoIndexing
    /\ NoRanking
    /\ NoSentiment
    /\ last = NoOp

NextFilter ==
    \/ \E c \in CourseIds, text \in ScrapedTexts : step_ingest(c, text)
    \/ \E u \in UserIds \cup {None}, k \in Terms, category \in {NoFilter, "n1"} :
          search_courses_filtered(u, k, category)
    \/ process_search_requests

SpecFilter == InitFilter /\ [][NextFilter]_vars

\* the notifications of user u that carry keyword k
NotesOf(us, u, k) ==
    {j \in DOMAIN us[u].notifications : us[u].notifications[j].keyword = k}

\* C30: a ProcessSearchRequests pass that runs right after a zero-result
\* Search of a logged-in user for K, with no course added or changed in
\* between, appends no Notification for K to that user and leaves the (user,
\* K) record pending, also when the Search returned nothing only because of
\* its category filter.
C30_NoNotificationWithoutNewContent ==
    [][(/\ last.op = "search_courses" /\ last.hit /\ last.user # None
        /\ last'.op = "process_search_requests")
          => (/\ NotesOf(users', last.user, last.name)
                    = NotesOf(users, last.user, last.name)
              /\ PendingOf(search_requests', last.user, last.name) # {})]_vars

\* C30 restricted to a Search that found nothing because no stored course
\* matches the text of K: the pass right after it appends nothing for K and
\* the record stays pending.
C30_UnmatchedSearchWaits ==
    [][(/\ last.op = "search_courses" /\ last.hit /\ last.user # None
        /\ Matching(courses, {last.name}) = {}
        /\ last'.op = "process_search_requests")
          => (/\ NotesOf(users', last.user, last.name)
                    = NotesOf(users, last.user, last.name)
              /\ PendingOf(search_requests', last.user, last.name) # {})]_vars

=============================================================================
